---- MODULE Spec2Model ----
(***************************************************************************)
(* A model of torch/csrc/api/src/nn/modules/rnn.cpp: the RNN, LSTM and GRU *)
(* modules.  The module state is the options, the registered parameters    *)
(* and the three weight lists; the operations are construction (reset),    *)
(* flatten_parameters, to(), and the six forward methods.  The recurrent   *)
(* kernels, the tensor library and the Module base class are collaborators *)
(* outside the file and are modelled only by what this file relies on.     *)
(***************************************************************************)
EXTENDS Integers, Sequences, FiniteSets, TLC

VARIABLES
  impl,                 \* [kind, nonlinearity, status]: which module class, and whether it is constructed
  options,              \* RNNOptionsBase: mode, input_size, hidden_size, num_layers, bias, ...
  parameters,           \* Module::parameters_: ordered name -> tensor
  _flat_weights_names,  \* std::vector<std::string>
  _all_weights,         \* std::vector<std::vector<std::string>>
  _flat_weights,        \* std::vector<Tensor>: handles of registered parameters
  env,                  \* what is outside the module: cuDNN availability, last flatten outcome, warnings, last error
  call                  \* the record of the last forward call

vars == <<impl, options, parameters, _flat_weights_names, _all_weights, _flat_weights, env, call>>
moduleVars == <<impl, options, parameters, _flat_weights_names, _all_weights, _flat_weights>>

(***************************************************************************)
(* Bounds of the model.                                                    *)
(***************************************************************************)
MaxSize == 2     \* input_size, hidden_size and every tensor dimension range over 1..MaxSize
MaxLayers == 2   \* num_layers ranges over 1..MaxLayers

Sizes == 1..MaxSize
Layers == 1..MaxLayers

\* dropout is a double; the model counts it in tenths (-5 is -0.5, 10 is 1.0).
Dropouts == {-5, 0, 5, 10, 15}

Modes == {"LSTM", "GRU", "RNN_TANH", "RNN_RELU"}
\* A tag that is none of the four enumerators (the final else branches).
OtherMode == "OTHER"
Nonlinearities == {"Tanh", "ReLU"}
OtherNonlinearity == "OTHER"

(***************************************************************************)
(* Values that may be absent: an undefined Tensor, an empty optional.      *)
(***************************************************************************)
Undef == [defined |-> FALSE, v |-> <<>>]
Def(x) == [defined |-> TRUE, v |-> <<x>>]
Val(o) == o.v[1]

\* The outcome of a call that may raise.
Ok(x) == [raised |-> FALSE, error |-> "", v |-> <<x>>]
Raise(msg) == [raised |-> TRUE, error |-> msg, v |-> <<>>]

(***************************************************************************)
(* get_cudnn_mode_for_rnn, get_rnn_impl, compute_rnn_options_base_mode     *)
(***************************************************************************)
get_cudnn_mode_for_rnn(mode) ==
  IF mode = "RNN_RELU" THEN Ok(0)
  ELSE IF mode = "RNN_TANH" THEN Ok(1)
  ELSE IF mode = "LSTM" THEN Ok(2)
  ELSE IF mode = "GRU" THEN Ok(3)
  ELSE Raise("Unknown mode")

\* _rnn_impls: the table of kernels the simple RNN dispatches through.
_rnn_impls == [RNN_TANH |-> "rnn_tanh", RNN_RELU |-> "rnn_relu"]

\* Mutant of get_rnn_impl: the two table entries are taken for each other.
get_rnn_impl_swapped(mode) ==
  IF mode = "RNN_TANH" THEN Ok(_rnn_impls["RNN_RELU"])
  ELSE IF mode = "RNN_RELU" THEN Ok(_rnn_impls["RNN_TANH"])
  ELSE Raise("Unknown mode")

get_rnn_impl(mode) ==
  IF mode = "RNN_TANH" THEN Ok(_rnn_impls["RNN_TANH"])
  ELSE IF mode = "RNN_RELU" THEN Ok(_rnn_impls["RNN_RELU"])
  ELSE Raise("Unknown mode")

compute_rnn_options_base_mode(nonlinearity) ==
  IF nonlinearity = "Tanh" THEN Ok("RNN_TANH")
  ELSE IF nonlinearity = "ReLU" THEN Ok("RNN_RELU")
  ELSE Raise("Unknown nonlinearity")

(***************************************************************************)
(* Parameter names.  A name template is a sequence of pieces; regex_replace*)
(* substitutes a placeholder piece and str joins the pieces.               *)
(***************************************************************************)
regex_replace(tokens, pattern, replacement) ==
  [i \in 1..Len(tokens) |-> IF tokens[i] = pattern THEN replacement ELSE tokens[i]]

RECURSIVE str(_)
str(tokens) == IF tokens = <<>> THEN "" ELSE Head(tokens) \o str(Tail(tokens))

param_name_templates(bias) ==
  << <<"weight_ih_l", "{layer}", "{suffix}">>, <<"weight_hh_l", "{layer}", "{suffix}">> >>
  \o (IF bias THEN << <<"bias_ih_l", "{layer}", "{suffix}">>, <<"bias_hh_l", "{layer}", "{suffix}">> >>
      ELSE <<>>)

\* Mutant of param_suffix: the suffix is given to the forward direction.
param_suffix_swapped(direction) == IF direction = 0 THEN "_reverse" ELSE ""

param_suffix(direction) == IF direction = 1 THEN "_reverse" ELSE ""

param_names(layer, direction, bias) ==
  LET templates == param_name_templates(bias)
  IN [i \in 1..Len(templates) |->
        str(regex_replace(regex_replace(templates[i], "{layer}", ToString(layer)),
                          "{suffix}", param_suffix(direction)))]

(***************************************************************************)
(* Tensors.  A parameter tensor is its shape, dtype, device, the identity  *)
(* of its storage and the state of its contents.                           *)
(***************************************************************************)
\* torch::empty(shape): a fresh float CPU tensor with its own storage, number `id`.
empty(shape, id) ==
  [shape |-> shape, dtype |-> "Float", cuda |-> FALSE,
   ptr |-> [buffer |-> "own", offset |-> id], data |-> "empty"]

\* Module::register_parameter: an ordered dictionary from names to tensors.
contains(params, name) == \E i \in 1..Len(params) : params[i].name = name
lookup(params, name) == params[CHOOSE i \in 1..Len(params) : params[i].name = name].tensor
register_parameter(params, name, tensor) ==
  IF contains(params, name)
  THEN [i \in 1..Len(params) |-> IF params[i].name = name
                                   THEN [name |-> name, tensor |-> tensor] ELSE params[i]]
  ELSE Append(params, [name |-> name, tensor |-> tensor])

num_directions(opts) == IF opts.bidirectional THEN 2 ELSE 1

\* Mutant of gate_size: the GRU gets the four gates of the LSTM.
gate_size_gru4(mode, hidden_size) ==
  IF mode = "LSTM" THEN Ok(4 * hidden_size)
  ELSE IF mode = "GRU" THEN Ok(4 * hidden_size)
  ELSE IF mode = "RNN_TANH" THEN Ok(hidden_size)
  ELSE IF mode = "RNN_RELU" THEN Ok(hidden_size)
  ELSE Raise("Unrecognized RNN mode")

gate_size(mode, hidden_size) ==
  IF mode = "LSTM" THEN Ok(4 * hidden_size)
  ELSE IF mode = "GRU" THEN Ok(3 * hidden_size)
  ELSE IF mode = "RNN_TANH" THEN Ok(hidden_size)
  ELSE IF mode = "RNN_RELU" THEN Ok(hidden_size)
  ELSE Raise("Unrecognized RNN mode")

(***************************************************************************)
(* RNNImplBase::reset and what it calls.  A module state is the record     *)
(* [parameters, names, all, flat]; `st` below is always of that form.      *)
(***************************************************************************)
layer_params(opts, gs, layer, direction) ==
  LET layer_input_size == IF layer = 0 THEN opts.input_size
                          ELSE opts.hidden_size * num_directions(opts)
      id == 4 * (layer * num_directions(opts) + direction)
  IN << empty(<<gs, layer_input_size>>, id + 1),
        empty(<<gs, opts.hidden_size>>, id + 2),
        empty(<<gs>>, id + 3),
        empty(<<gs>>, id + 4) >>

\* for (i = 0; i < param_names.size(); i++) register_parameter(param_names[i], layer_params[i])
RECURSIVE register_all(_, _, _, _)
register_all(params, names, tensors, i) ==
  IF i > Len(names) THEN params
  ELSE register_all(register_parameter(params, names[i], tensors[i]), names, tensors, i + 1)

\* The two nested loops over layer and direction.
RECURSIVE reset_layers(_, _, _, _, _)
reset_layers(st, opts, gs, layer, direction) ==
  IF layer >= opts.num_layers THEN st
  ELSE IF direction >= num_directions(opts) THEN reset_layers(st, opts, gs, layer + 1, 0)
  ELSE LET names == param_names(layer, direction, opts.bias)
           tensors == layer_params(opts, gs, layer, direction)
       IN reset_layers([st EXCEPT !.parameters = register_all(st.parameters, names, tensors, 1),
                                  !.names = st.names \o names,
                                  !.all = Append(st.all, names)],
                       opts, gs, layer, direction + 1)

\* _flat_weights = {}; then one handle per name, undefined when the name is not registered.
reset_flat_weights(names, params) ==
  [i \in 1..Len(names) |-> IF contains(params, names[i]) THEN Def(names[i]) ELSE Undef]

\* The tensor a handle of _flat_weights refers to.
tensor_of(params, handle) == lookup(params, Val(handle))

\* torch::cudnn_is_acceptable: cuDNN is enabled, the tensor is on CUDA and of a floating type.
cudnn_is_acceptable(t, cudnn_enabled) ==
  cudnn_enabled /\ t.cuda /\ t.dtype \in {"Float", "Double"}

\* torch::_cudnn_rnn_flatten_weight: in place, moves every weight into one fused buffer.
_cudnn_rnn_flatten_weight(params, flat) ==
  [i \in 1..Len(params) |->
     IF \E j \in 1..Len(flat) : Val(flat[j]) = params[i].name
     THEN [params[i] EXCEPT !.tensor.ptr =
             [buffer |-> "fused", offset |-> CHOOSE j \in 1..Len(flat) : Val(flat[j]) = params[i].name]]
     ELSE params[i]]

\* Mutant of flatten_guard: the check for aliasing parameters is missing.
flatten_guard_no_alias_check(flat, names, params, cudnn_enabled) ==
  IF Len(flat) # Len(names) THEN FALSE
  ELSE LET first_fw == lookup(params, Val(flat[1]))
           dtype == first_fw.dtype
       IN ~ \E i \in 1..Len(flat) :
               LET fw == lookup(params, Val(flat[i]))
               IN \/ ~(fw.dtype = dtype)
                  \/ ~fw.cuda
                  \/ ~(cudnn_enabled /\ fw.cuda /\ fw.dtype \in {"Float", "Double"})

\* The guards of flatten_parameters, in the order of the code.
flatten_guard(flat, names, params, cudnn_enabled) ==
  IF Len(flat) # Len(names) THEN FALSE
  ELSE LET first_fw == tensor_of(params, flat[1])
           dtype == first_fw.dtype
       IN IF \E i \in 1..Len(flat) :
               LET fw == tensor_of(params, flat[i])
               IN \/ ~(fw.dtype = dtype)
                  \/ ~fw.cuda
                  \/ ~cudnn_is_acceptable(fw, cudnn_enabled)
          THEN FALSE
          ELSE LET unique_data_ptrs == {tensor_of(params, flat[i]).ptr : i \in 1..Len(flat)}
               IN Cardinality(unique_data_ptrs) = Len(flat)

\* flatten_parameters: the parameters afterwards and whether the primitive was called.
flatten_parameters(flat, names, params, opts, cudnn_enabled) ==
  IF flatten_guard(flat, names, params, cudnn_enabled)
  THEN [called |-> TRUE,
        args |-> <<IF opts.bias THEN 4 ELSE 2, opts.input_size,
                   Val(get_cudnn_mode_for_rnn(opts.mode)), opts.hidden_size,
                   opts.num_layers, opts.batch_first, opts.bidirectional>>,
        parameters |-> _cudnn_rnn_flatten_weight(params, flat)]
  ELSE [called |-> FALSE, args |-> <<>>, parameters |-> params]

\* reset_parameters: init::uniform_ on every parameter.
reset_parameters(params) ==
  [i \in 1..Len(params) |-> [params[i] EXCEPT !.tensor.data = "uniform"]]

\* The dropout TORCH_CHECK (dropout in tenths) and the warning condition.
\* Mutant of dropout_in_range: the upper end of the range is excluded.
dropout_in_range_open(opts) == 0 <= opts.dropout /\ opts.dropout < 10

dropout_in_range(opts) == 0 <= opts.dropout /\ opts.dropout <= 10
dropout_warns(opts) == opts.dropout > 0 /\ opts.num_layers = 1

\* reset(): the outcome, the warning flag, the flatten outcome and the module state.
reset(st, opts, cudnn_enabled) ==
  IF ~dropout_in_range(opts)
  THEN [raised |-> TRUE, error |-> "dropout should be a number in range [0, 1]",
        warned |-> FALSE, flatten |-> "none", st |-> st]
  ELSE LET gs == gate_size(opts.mode, opts.hidden_size)
       IN IF gs.raised
          THEN [raised |-> TRUE, error |-> gs.error,
                warned |-> dropout_warns(opts), flatten |-> "none", st |-> st]
          ELSE LET cleared == [st EXCEPT !.names = <<>>, !.all = <<>>]
                   looped == reset_layers(cleared, opts, Val(gs), 0, 0)
                   flat == reset_flat_weights(looped.names, looped.parameters)
                   fl == flatten_parameters(flat, looped.names, looped.parameters, opts, cudnn_enabled)
               IN [raised |-> FALSE, error |-> "",
                   warned |-> dropout_warns(opts),
                   flatten |-> IF fl.called THEN "called" ELSE "noop",
                   st |-> [looped EXCEPT !.flat = flat,
                                         !.parameters = reset_parameters(fl.parameters)]]

(***************************************************************************)
(* The module as variables, and the operations of its life cycle.          *)
(***************************************************************************)
module_state == [parameters |-> parameters, names |-> _flat_weights_names,
                 all |-> _all_weights, flat |-> _flat_weights]

RNNOptionsBase(mode, input_size, hidden_size, num_layers, bias, batch_first, dropout, bidirectional) ==
  [mode |-> mode, input_size |-> input_size, hidden_size |-> hidden_size,
   num_layers |-> num_layers, bias |-> bias, batch_first |-> batch_first,
   dropout |-> dropout, bidirectional |-> bidirectional]

OptionValues ==
  {RNNOptionsBase("LSTM", i, h, l, b, bf, d, bd) :
     i \in Sizes, h \in Sizes, l \in Layers, b \in BOOLEAN, bf \in BOOLEAN,
     d \in Dropouts, bd \in BOOLEAN}

NoCall == [method |-> "none"]

\* Before any constructor has run.
Unconstructed ==
  /\ impl = [kind |-> "none", nonlinearity |-> "none", status |-> "none"]
  /\ options = [mode |-> "none"]
  /\ parameters = <<>>
  /\ _flat_weights_names = <<>>
  /\ _all_weights = <<>>
  /\ _flat_weights = <<>>
  /\ call = NoCall

Init ==
  /\ Unconstructed
  /\ env \in [cudnn_enabled : BOOLEAN, op : {"none"}, error : {""},
              warned : {FALSE}, flatten : {"none"}, edits : {0}]

\* The variables after reset() returned or raised with outcome r.
AfterReset(r, op) ==
  /\ parameters' = r.st.parameters
  /\ _flat_weights_names' = r.st.names
  /\ _all_weights' = r.st.all
  /\ _flat_weights' = r.st.flat
  /\ env' = [env EXCEPT !.op = op, !.error = r.error, !.warned = r.warned,
                        !.flatten = r.flatten]

\* RNNImplBase::RNNImplBase(options_): options(std::move(options_)) { reset(); }
RNNImplBase(kind, nonlinearity, opts) ==
  LET r == reset(module_state, opts, env.cudnn_enabled)
  IN /\ impl.status = "none"
     /\ options' = opts
     /\ impl' = [kind |-> kind, nonlinearity |-> nonlinearity,
                 status |-> IF r.raised THEN "failed" ELSE "constructed"]
     /\ AfterReset(r, "construct")
     /\ UNCHANGED call

\* RNNImpl::RNNImpl(options_).  The base-class initializer reads the member
\* `options`, which is initialized only afterwards: the nonlinearity it sees
\* (`seen`) is indeterminate and need not be the one of options_.
RNNImpl ==
  \E o \in OptionValues, nonlinearity \in Nonlinearities,
     seen \in Nonlinearities \cup {OtherNonlinearity} :
    LET mode == compute_rnn_options_base_mode(seen)
    IN IF mode.raised
       THEN /\ impl.status = "none"
            /\ impl' = [kind |-> "RNN", nonlinearity |-> "none", status |-> "failed"]
            /\ env' = [env EXCEPT !.op = "construct", !.error = mode.error]
            /\ UNCHANGED <<options, parameters, _flat_weights_names, _all_weights,
                           _flat_weights, call>>
       ELSE RNNImplBase("RNN", nonlinearity, [o EXCEPT !.mode = Val(mode)])

LSTMImpl ==
  \E o \in OptionValues : RNNImplBase("LSTM", "none", [o EXCEPT !.mode = "LSTM"])

GRUImpl ==
  \E o \in OptionValues : RNNImplBase("GRU", "none", [o EXCEPT !.mode = "GRU"])

\* reset() called again on a constructed module.
Reset ==
  LET r == reset(module_state, options, env.cudnn_enabled)
  IN /\ impl.status = "constructed"
     /\ AfterReset(r, "reset")
     /\ UNCHANGED <<impl, options, call>>

Next == RNNImpl \/ LSTMImpl \/ GRUImpl \/ Reset

Spec == Init /\ [][Next]_vars

(***************************************************************************)
(* Claims about construction and reset, checked under Spec.                *)
(***************************************************************************)
Constructed == impl.status = "constructed"
\* reset() has run on the options (it returned or raised).
ResetRan == impl.status # "none" /\ options.mode # "none"
DropoutError == "dropout should be a number in range [0, 1]"

L == options.num_layers
D == IF options.bidirectional THEN 2 ELSE 1
H == options.hidden_size
\* The names per layer and direction, written out independently of the templates.
Prefixes == IF options.bias THEN <<"weight_ih", "weight_hh", "bias_ih", "bias_hh">>
            ELSE <<"weight_ih", "weight_hh">>
P == Len(Prefixes)
ExpectedName(j, k, d) ==
  Prefixes[j] \o "_l" \o ToString(k) \o (IF d = 0 THEN "" ELSE "_reverse")
ExpectedNames == {ExpectedName(j, k, d) : j \in 1..P, k \in 0..(L - 1), d \in 0..(D - 1)}
RegisteredNames == {parameters[i].name : i \in 1..Len(parameters)}

\* C3: after reset() the registered names are exactly weight_ih/weight_hh (and
\* bias_ih/bias_hh iff bias) per layer and direction, "_reverse" for direction 1;
\* _flat_weights_names lists them once each, layer-major, forward before reverse,
\* weight_ih, weight_hh, bias_ih, bias_hh within a layer/direction, so its length is
\* L * D * (4 if bias else 2); _all_weights has L * D entries with the same names in
\* the same order; the lengths are the same after reset() runs again.
C3_WeightLayout ==
  Constructed =>
    /\ RegisteredNames = ExpectedNames
    /\ Len(parameters) = Cardinality(ExpectedNames)
    /\ P = (IF options.bias THEN 4 ELSE 2)
    /\ Len(_flat_weights_names) = L * D * P
    /\ Cardinality({_flat_weights_names[i] : i \in 1..Len(_flat_weights_names)})
         = Len(_flat_weights_names)
    /\ \A k \in 0..(L - 1), d \in 0..(D - 1), j \in 1..P :
         _flat_weights_names[(k * D + d) * P + j] = ExpectedName(j, k, d)
    /\ Len(_all_weights) = L * D
    /\ \A k \in 0..(L - 1), d \in 0..(D - 1) :
         _all_weights[k * D + d + 1] = [j \in 1..P |-> ExpectedName(j, k, d)]

\* A bidirectional two-layer module with bias on which reset() has run a second time.
C3_Witness ==
  /\ Constructed /\ env.op = "reset"
  /\ options.bidirectional /\ options.bias /\ options.num_layers = 2
  /\ Len(_flat_weights_names) = 16
  /\ _flat_weights_names[8] = "bias_hh_l0_reverse"

\* C7: reset() raises the dropout error iff dropout < 0 or dropout > 1, and then no
\* parameter is registered and no weight list is changed; with 0 < dropout <= 1 and
\* num_layers = 1 it only warns: construction completes and registers the same
\* parameters as with dropout = 0.
C7_DropoutValidation ==
  ResetRan =>
    /\ (env.error = DropoutError) <=> (options.dropout < 0 \/ options.dropout > 10)
    /\ env.error = DropoutError =>
         /\ impl.status = "failed"
         /\ parameters = <<>> /\ _flat_weights_names = <<>>
         /\ _all_weights = <<>> /\ _flat_weights = <<>>
    /\ (0 < options.dropout /\ options.dropout <= 10 /\ options.num_layers = 1) =>
         /\ env.warned
         /\ Constructed
         /\ RegisteredNames = ExpectedNames
         /\ parameters =
              reset([parameters |-> <<>>, names |-> <<>>, all |-> <<>>, flat |-> <<>>],
                    [options EXCEPT !.dropout = 0], env.cudnn_enabled).st.parameters
    /\ (options.dropout = 0 /\ Constructed) => ~env.warned

\* A one-layer module built with dropout = 1.0: warned, and constructed.
C7_Witness ==
  /\ Constructed /\ options.dropout = 10 /\ options.num_layers = 1
  /\ env.warned /\ Len(parameters) > 0

\* A construction that the dropout check refused.
C7_WitnessRaised ==
  impl.status = "failed" /\ env.error = DropoutError /\ options.dropout = 15

G == IF options.mode = "LSTM" THEN 4 * H ELSE IF options.mode = "GRU" THEN 3 * H ELSE H
ShapeOf(name) == lookup(parameters, name).shape

\* C8: gate_size is 4*H for LSTM, 3*H for GRU, H for RNN_TANH and RNN_RELU, and any
\* other mode raises "Unrecognized RNN mode"; reset() creates weight_ih of shape
\* (gate_size, input_size) at layer 0 and (gate_size, H * D) above, weight_hh of shape
\* (gate_size, H), and bias_ih and bias_hh of shape (gate_size).
C8_ParameterShapes ==
  /\ Constructed =>
       \A k \in 0..(L - 1), d \in 0..(D - 1) :
         /\ ShapeOf(ExpectedName(1, k, d)) =
              <<G, IF k = 0 THEN options.input_size ELSE H * D>>
         /\ ShapeOf(ExpectedName(2, k, d)) = <<G, H>>
         /\ options.bias => /\ ShapeOf(ExpectedName(3, k, d)) = <<G>>
                            /\ ShapeOf(ExpectedName(4, k, d)) = <<G>>
  /\ ResetRan =>
       /\ gate_size(options.mode, H) = Ok(G)
       /\ gate_size(OtherMode, H) = Raise("Unrecognized RNN mode")

\* A bidirectional two-layer GRU with hidden_size 2: gate_size 6, second layer input 4.
C8_Witness ==
  /\ Constructed /\ options.mode = "GRU" /\ options.bidirectional
  /\ options.num_layers = 2 /\ options.hidden_size = 2 /\ options.bias
  /\ ShapeOf("weight_ih_l1_reverse") = <<6, 4>>
  /\ ShapeOf("bias_hh_l1") = <<6>>

(***************************************************************************)
(* to() and flatten_parameters() on a constructed module: SpecFlat.        *)
(***************************************************************************)
MaxEdits == 1    \* how many times the user replaces the data of a parameter

Dtypes == {"Float", "Double"}
EmptyModule == [parameters |-> <<>>, names |-> <<>>, all |-> <<>>, flat |-> <<>>]

\* The variables right after a constructor returned, for options o.
ConstructedWith(kind, nonlinearity, o, e) ==
  LET r == reset(EmptyModule, o, e.cudnn_enabled)
  IN /\ ~r.raised
     /\ impl = [kind |-> kind, nonlinearity |-> nonlinearity, status |-> "constructed"]
     /\ options = o
     /\ parameters = r.st.parameters
     /\ _flat_weights_names = r.st.names
     /\ _all_weights = r.st.all
     /\ _flat_weights = r.st.flat
     /\ env = [e EXCEPT !.op = "construct", !.warned = r.warned, !.flatten = r.flatten]
     /\ call = NoCall

KindOf(mode) == IF mode \in {"RNN_TANH", "RNN_RELU"} THEN "RNN" ELSE mode
\* One-layer, one-direction modules of size 1: flattening reads neither the shapes
\* nor how the weights are spread over layers and directions.
FlatOptionValues ==
  {RNNOptionsBase(m, 1, 1, 1, b, FALSE, 0, FALSE) : m \in Modes, b \in BOOLEAN}

\* The states a constructor can leave: the nonlinearity an RNNImpl keeps in its own
\* options need not be the one its mode was computed from (see RNNImpl).
AfterConstruction(o, e) ==
  \E nonlinearity \in Nonlinearities \cup {"none"} :
    /\ (nonlinearity = "none") <=> (KindOf(o.mode) # "RNN")
    /\ ConstructedWith(KindOf(o.mode), nonlinearity, o, e)

InitFlat ==
  \E o \in FlatOptionValues, c \in BOOLEAN :
    AfterConstruction(o, [cudnn_enabled |-> c, op |-> "none", error |-> "", warned |-> FALSE,
                          flatten |-> "none", edits |-> 0])

\* nn::Module::to: every parameter that is not yet of the device and dtype asked for
\* is replaced by a converted copy in fresh storage.
Module_to(params, device, dtype) ==
  [i \in 1..Len(params) |->
     LET t == params[i].tensor
         cuda == IF device.defined THEN Val(device) = "cuda" ELSE t.cuda
         dt == IF dtype.defined THEN Val(dtype) ELSE t.dtype
     IN IF t.cuda = cuda /\ t.dtype = dt THEN params[i]
        ELSE [params[i] EXCEPT !.tensor.cuda = cuda, !.tensor.dtype = dt,
                               !.tensor.ptr = [buffer |-> "moved", offset |-> i]]]

\* The three overloads of to(): Module::to, reset_flat_weights, flatten_parameters.
to(device, dtype) ==
  LET moved == Module_to(parameters, device, dtype)
      flat == reset_flat_weights(_flat_weights_names, moved)
      fl == flatten_parameters(flat, _flat_weights_names, moved, options, env.cudnn_enabled)
  IN /\ impl.status = "constructed"
     /\ parameters' = fl.parameters
     /\ _flat_weights' = flat
     /\ env' = [env EXCEPT !.op = "to", !.flatten = IF fl.called THEN "called" ELSE "noop"]
     /\ UNCHANGED <<impl, options, _flat_weights_names, _all_weights, call>>

to_device_dtype == \E device \in {"cpu", "cuda"}, dtype \in Dtypes : to(Def(device), Def(dtype))
to_dtype == \E dtype \in Dtypes : to(Undef, Def(dtype))
to_device == \E device \in {"cpu", "cuda"} : to(Def(device), Undef)

\* The user calls flatten_parameters() directly.
FlattenParameters ==
  LET fl == flatten_parameters(_flat_weights, _flat_weights_names, parameters, options,
                               env.cudnn_enabled)
  IN /\ impl.status = "constructed"
     /\ parameters' = fl.parameters
     /\ env' = [env EXCEPT !.op = "flatten_parameters",
                           !.flatten = IF fl.called THEN "called" ELSE "noop"]
     /\ UNCHANGED <<impl, options, _flat_weights_names, _all_weights, _flat_weights, call>>

\* The user replaces the data of one registered parameter (Tensor::set_data): by the
\* data of the first parameter, which ties the two, or by a fresh tensor.
DataSources == {"tied", "float_cpu", "double_cuda"}
set_data(params, i, source) ==
  [params EXCEPT ![i].tensor =
     IF source = "tied"
     THEN [@ EXCEPT !.dtype = params[1].tensor.dtype, !.cuda = params[1].tensor.cuda,
                    !.ptr = params[1].tensor.ptr]
     ELSE [@ EXCEPT !.dtype = IF source = "float_cpu" THEN "Float" ELSE "Double",
                    !.cuda = (source = "double_cuda"),
                    !.ptr = [buffer |-> "fresh", offset |-> i]]]

SetData ==
  \E i \in 2..Len(parameters), source \in DataSources :
    /\ impl.status = "constructed"
    /\ env.edits < MaxEdits
    /\ parameters' = set_data(parameters, i, source)
    /\ env' = [env EXCEPT !.op = "set_data", !.edits = @ + 1]
    /\ UNCHANGED <<impl, options, _flat_weights_names, _all_weights, _flat_weights, call>>

NextFlat == to_device_dtype \/ to_dtype \/ to_device \/ FlattenParameters \/ SetData

SpecFlat == InitFlat /\ [][NextFlat]_vars

\* The conditions of flattening, stated on the module's variables.
Weight(i) == lookup(parameters, Val(_flat_weights[i]))
NWeights == Len(_flat_weights)
CanFlatten ==
  /\ NWeights = Len(_flat_weights_names)
  /\ \A i \in 1..NWeights : Weight(i).dtype = Weight(1).dtype
  /\ \A i \in 1..NWeights : Weight(i).cuda
  /\ \A i \in 1..NWeights :
       env.cudnn_enabled /\ Weight(i).cuda /\ Weight(i).dtype \in {"Float", "Double"}
  /\ \A i \in 1..NWeights, j \in 1..NWeights : i # j => Weight(i).ptr # Weight(j).ptr

\* C4: flatten_parameters invokes the flatten primitive only when _flat_weights has as
\* many entries as _flat_weights_names, every weight has the dtype of the first, is on
\* CUDA and acceptable to cuDNN, and no two weights share a data pointer; in every
\* other case it returns without calling it and leaves _flat_weights,
\* _flat_weights_names and every registered parameter unchanged.
C4_FlattenOptional ==
  [][ FlattenParameters =>
        /\ (env'.flatten = "called") <=> CanFlatten
        /\ ~CanFlatten =>
             /\ env'.flatten = "noop"
             /\ UNCHANGED <<parameters, _flat_weights, _flat_weights_names>> ]_vars

\* flatten_parameters() was called on CUDA float weights of which two are tied: a no-op.
C4_Witness ==
  /\ env.op = "flatten_parameters" /\ env.flatten = "noop" /\ env.cudnn_enabled
  /\ \A i \in 1..NWeights : Weight(i).cuda /\ Weight(i).dtype = "Float"
  /\ \E i \in 2..NWeights : Weight(i).ptr = Weight(1).ptr

\* flatten_parameters() was called and invoked the primitive.
C4_WitnessCalled ==
  /\ env.op = "flatten_parameters" /\ env.flatten = "called"
  /\ \A i \in 1..NWeights : Weight(i).ptr.buffer = "fused"

(***************************************************************************)
(* The forward methods.  An input tensor is its shape.  A hidden-state     *)
(* tensor is its shape and, along dimension 1, which batch entry of the    *)
(* caller's tensor each of its entries holds (0: a zero entry).            *)
(***************************************************************************)
\* torch::zeros(shape)
zeros(shape) == [shape |-> shape, rows |-> [i \in 1..shape[2] |-> 0]]

\* Tensor::index_select(dim = 1, index): the entries of dimension 1 picked by index
\* (0-based); an index past the end of the dimension raises.
index_select(tensor, index) ==
  IF \E k \in 1..Len(index) : index[k] >= tensor.shape[2]
  THEN Raise("index out of range")
  ELSE Ok([shape |-> [tensor.shape EXCEPT ![2] = Len(index)],
           rows |-> [k \in 1..Len(index) |-> tensor.rows[index[k] + 1]]])

apply_permutation(tensor, permutation) == index_select(tensor, permutation)

permute_hidden(hx, permutation) ==
  IF ~permutation.defined THEN Ok(hx)
  ELSE apply_permutation(hx, Val(permutation))

LSTMImpl_permute_hidden(hx, permutation) ==
  IF ~permutation.defined THEN Ok(hx)
  ELSE LET h == apply_permutation(hx[1], Val(permutation))
           c == apply_permutation(hx[2], Val(permutation))
       IN IF h.raised THEN h ELSE IF c.raised THEN c ELSE Ok(<<Val(h), Val(c)>>)

\* Mutant of check_input: the feature size is read from the first dimension.
check_input_first_dim(input, batch_sizes, opts) ==
  LET expected_input_dim == IF batch_sizes.defined THEN 2 ELSE 3
  IN IF ~(Len(input) = expected_input_dim) THEN Raise("input must have dimensions")
     ELSE IF ~(opts.input_size = input[1])
          THEN Raise("input.size(-1) must be equal to input_size")
          ELSE Ok(TRUE)

check_input(input, batch_sizes, opts) ==
  LET expected_input_dim == IF batch_sizes.defined THEN 2 ELSE 3
  IN IF ~(Len(input) = expected_input_dim) THEN Raise("input must have dimensions")
     ELSE IF ~(opts.input_size = input[Len(input)])
          THEN Raise("input.size(-1) must be equal to input_size")
          ELSE Ok(TRUE)

\* Mutant of get_expected_hidden_size: batch_first is ignored.
get_expected_hidden_size_seq_first(input, batch_sizes, opts) ==
  LET mini_batch == IF batch_sizes.defined THEN Val(batch_sizes)[1] ELSE input[2]
  IN <<opts.num_layers * num_directions(opts), mini_batch, opts.hidden_size>>

get_expected_hidden_size(input, batch_sizes, opts) ==
  LET mini_batch == IF batch_sizes.defined THEN Val(batch_sizes)[1]
                    ELSE IF opts.batch_first THEN input[1] ELSE input[2]
  IN <<opts.num_layers * num_directions(opts), mini_batch, opts.hidden_size>>

check_hidden_size(hx, expected_hidden_size, msg) ==
  IF hx.shape # expected_hidden_size THEN Raise(msg) ELSE Ok(TRUE)

\* check_forward_args: the outcome and the checks that ran, in order.
check_forward_args(input, hidden, batch_sizes, opts) ==
  LET ci == check_input(input, batch_sizes, opts)
  IN IF ci.raised THEN [outcome |-> ci, steps |-> <<"check_input">>]
     ELSE [outcome |-> check_hidden_size(hidden, get_expected_hidden_size(input, batch_sizes, opts),
                                         "Expected hidden size"),
           steps |-> <<"check_input", "check_hidden_size">>]

\* Mutant of LSTMImpl::check_forward_args: hidden[1] is not checked.
LSTMImpl_check_forward_args_h_only(input, hidden, batch_sizes, opts) ==
  LET ci == check_input(input, batch_sizes, opts)
      expected_hidden_size == get_expected_hidden_size(input, batch_sizes, opts)
  IN IF ci.raised THEN [outcome |-> ci, steps |-> <<"check_input">>]
     ELSE [outcome |-> check_hidden_size(hidden[1], expected_hidden_size, "Expected hidden[0] size"),
           steps |-> <<"check_input", "check_hidden_size">>]

LSTMImpl_check_forward_args(input, hidden, batch_sizes, opts) ==
  LET ci == check_input(input, batch_sizes, opts)
      expected_hidden_size == get_expected_hidden_size(input, batch_sizes, opts)
      h0 == check_hidden_size(hidden[1], expected_hidden_size, "Expected hidden[0] size")
  IN IF ci.raised THEN [outcome |-> ci, steps |-> <<"check_input">>]
     ELSE [outcome |-> IF h0.raised THEN h0
                       ELSE check_hidden_size(hidden[2], expected_hidden_size,
                                              "Expected hidden[1] size"),
           steps |-> <<"check_input", "check_hidden_size">>]

\* Module::is_training(): modules are in training mode unless eval() was called.
is_training == TRUE

\* A call of one of the kernels torch::rnn_tanh, rnn_relu, lstm, gru: the padded
\* overload takes batch_first, the packed one takes batch_sizes.
kernel_call(name, input, batch_sizes, hx, flat, opts) ==
  [name |-> name,
   variant |-> IF ~batch_sizes.defined THEN "padded" ELSE "packed",
   input |-> input, hx |-> hx, params |-> flat, has_biases |-> opts.bias,
   num_layers |-> opts.num_layers, dropout |-> opts.dropout, train |-> is_training,
   bidirectional |-> opts.bidirectional,
   batch_first |-> IF ~batch_sizes.defined THEN Def(opts.batch_first) ELSE Undef,
   batch_sizes |-> batch_sizes]

\* What a kernel returns as hidden state: tensors of the shape of the ones it was
\* given, batch entries in the positions it was given them.
kernel_hidden(hx) == hx

\* The record of a forward_helper that stopped at a raise.
Stopped(outcome, steps, hx_used) ==
  [raised |-> TRUE, error |-> outcome.error, trace |-> steps, used |-> hx_used,
   kernels |-> <<>>, hidden |-> Undef]

\* The record of a forward_helper that reached the kernel.
Dispatched(steps, hx, k) ==
  [raised |-> FALSE, error |-> "", trace |-> steps \o <<"kernel">>, used |-> Def(hx),
   kernels |-> <<k>>, hidden |-> Def(kernel_hidden(hx))]

\* RNNImplBase::forward_helper, up to its last statement.
RNNImplBase_forward_helper(input, batch_sizes, sorted_indices, max_batch_size, hx, flat, opts) ==
  LET h == IF ~hx.defined
           THEN Ok(zeros(<<opts.num_layers * num_directions(opts), max_batch_size,
                           opts.hidden_size>>))
           ELSE permute_hidden(Val(hx), sorted_indices)
  IN IF h.raised THEN Stopped(h, <<"hidden">>, Undef)
     ELSE LET cfa == check_forward_args(input, Val(h), batch_sizes, opts)
              _impl == get_rnn_impl(opts.mode)
          IN IF cfa.outcome.raised
             THEN Stopped(cfa.outcome, <<"hidden">> \o cfa.steps, Def(Val(h)))
             ELSE IF _impl.raised
                  THEN Stopped(_impl, <<"hidden">> \o cfa.steps, Def(Val(h)))
                  ELSE Dispatched(<<"hidden">> \o cfa.steps, Val(h),
                                  kernel_call(Val(_impl), input, batch_sizes, Val(h), flat, opts))

\* Mutant of GRUImpl::forward_helper: the kernel runs before the arguments are checked.
GRUImpl_forward_helper_late_check(input, batch_sizes, sorted_indices, max_batch_size, hx, flat, opts) ==
  LET h == IF ~hx.defined
           THEN Ok(zeros(<<opts.num_layers * num_directions(opts), max_batch_size,
                           opts.hidden_size>>))
           ELSE permute_hidden(Val(hx), sorted_indices)
  IN IF h.raised THEN Stopped(h, <<"hidden">>, Undef)
     ELSE LET cfa == check_forward_args(input, Val(h), batch_sizes, opts)
              k == kernel_call("gru", input, batch_sizes, Val(h), flat, opts)
          IN IF cfa.outcome.raised
             THEN [Stopped(cfa.outcome, <<"hidden", "kernel">> \o cfa.steps, Def(Val(h)))
                     EXCEPT !.kernels = <<k>>]
             ELSE [Dispatched(<<"hidden">>, Val(h), k)
                     EXCEPT !.trace = <<"hidden", "kernel">> \o cfa.steps]

GRUImpl_forward_helper(input, batch_sizes, sorted_indices, max_batch_size, hx, flat, opts) ==
  LET h == IF ~hx.defined
           THEN Ok(zeros(<<opts.num_layers * num_directions(opts), max_batch_size,
                           opts.hidden_size>>))
           ELSE permute_hidden(Val(hx), sorted_indices)
  IN IF h.raised THEN Stopped(h, <<"hidden">>, Undef)
     ELSE LET cfa == check_forward_args(input, Val(h), batch_sizes, opts)
          IN IF cfa.outcome.raised
             THEN Stopped(cfa.outcome, <<"hidden">> \o cfa.steps, Def(Val(h)))
             ELSE Dispatched(<<"hidden">> \o cfa.steps, Val(h),
                             kernel_call("gru", input, batch_sizes, Val(h), flat, opts))

LSTMImpl_forward_helper(input, batch_sizes, sorted_indices, max_batch_size, hx_opt, flat, opts) ==
  LET zs == zeros(<<opts.num_layers * num_directions(opts), max_batch_size, opts.hidden_size>>)
      h == IF ~hx_opt.defined THEN Ok(<<zs, zs>>)
           ELSE LSTMImpl_permute_hidden(Val(hx_opt), sorted_indices)
  IN IF h.raised THEN Stopped(h, <<"hidden">>, Undef)
     ELSE LET cfa == LSTMImpl_check_forward_args(input, Val(h), batch_sizes, opts)
          IN IF cfa.outcome.raised
             THEN Stopped(cfa.outcome, <<"hidden">> \o cfa.steps, Def(Val(h)))
             ELSE Dispatched(<<"hidden">> \o cfa.steps, Val(h),
                             kernel_call("lstm", input, batch_sizes, Val(h), flat, opts))

(***************************************************************************)
(* The forward methods as actions: SpecFwd.  The inputs of a call.         *)
(***************************************************************************)
RECURSIVE ShapesOfRank(_)
ShapesOfRank(n) ==
  IF n = 0 THEN {<<>>} ELSE {Append(sh, d) : sh \in ShapesOfRank(n - 1), d \in Sizes}

InputShapes == ShapesOfRank(2) \cup ShapesOfRank(3)
HiddenShapes == ShapesOfRank(2) \cup ShapesOfRank(3)

\* A hidden-state tensor of the caller: entry i of dimension 1 is the caller's entry i.
hidden_tensor(shape) == [shape |-> shape, rows |-> [i \in 1..shape[2] |-> i]]
HiddenTensors == {hidden_tensor(sh) : sh \in HiddenShapes}
\* The (h, c) pairs of the caller: two shapes of one rank that differ in at most one place.
NearShapes(a) ==
  {x \in HiddenShapes : Len(x) = Len(a) /\ Cardinality({i \in 1..Len(a) : x[i] # a[i]}) <= 1}
HiddenPairs ==
  UNION {{<<hidden_tensor(a), hidden_tensor(b)>> : b \in NearShapes(a)} : a \in HiddenShapes}

Optional(S) == {Undef} \cup {Def(x) : x \in S}

\* The permutations of 0..n-1, as index tensors.
IndexPermutations(n) ==
  {p \in [1..n -> 0..(n - 1)] : \A i \in 1..n, j \in 1..n : i # j => p[i] # p[j]}

\* The index tensors of a batch of b: none, or any two permutations.
IndexPairs(b) ==
  {<<Undef, Undef>>} \cup
  {<<Def(p), Def(q)>> : p \in IndexPermutations(b), q \in IndexPermutations(b)}

\* A PackedSequence: data, batch_sizes, and either no indices or two permutations of
\* the batch.
PackedSequence(data, b, ix) ==
  [data |-> data, batch_sizes |-> Def(<<b>>), sorted_indices |-> ix[1], unsorted_indices |-> ix[2]]
PackedSequences ==
  UNION {{PackedSequence(sh, b, ix) : sh \in InputShapes, ix \in IndexPairs(b)} : b \in Sizes}

\* The record of a forward call: its arguments, what forward_helper did, and the
\* hidden state handed back to the caller.
CallRecord(method, input, batch_sizes, sorted_indices, unsorted_indices, hx, fh, ret) ==
  [method |-> method, input |-> input, batch_sizes |-> batch_sizes,
   sorted_indices |-> sorted_indices, unsorted_indices |-> unsorted_indices, hx |-> hx,
   raised |-> fh.raised \/ ret.raised,
   error |-> IF fh.raised THEN fh.error ELSE ret.error,
   trace |-> fh.trace, used |-> fh.used, kernels |-> fh.kernels,
   hidden |-> IF fh.raised \/ ret.raised THEN Undef ELSE Def(Val(ret))]

\* A constructed module of class `kind` that is not inside a forward call.
Ready(kind) == impl.status = "constructed" /\ impl.kind = kind /\ call.method = "none"

\* An indeterminate tensor.
Indeterminate == [shape |-> <<>>, rows |-> <<>>]

\* RNNImplBase::forward(const Tensor&, Tensor) and forward(const PackedSequence&, Tensor),
\* which RNNImpl inherits.  forward_helper ends without a return statement, so the pair
\* forward() receives from it is indeterminate: it may or may not be the kernel's.
RNN_forward(method, input, batch_sizes, sorted_indices, unsorted_indices, max_batch_size, hx) ==
  LET fh == RNNImplBase_forward_helper(input, batch_sizes, sorted_indices, max_batch_size, hx,
                                       _flat_weights, options)
  IN /\ Ready("RNN")
     /\ \E received \in IF fh.raised THEN {Undef}
                        ELSE {fh.hidden, Def(Indeterminate)} :
          call' = CallRecord(method, input, batch_sizes, sorted_indices, unsorted_indices, hx, fh,
                             IF fh.raised THEN Ok(Indeterminate)
                             ELSE IF Val(received) = Indeterminate THEN Ok(Indeterminate)
                             ELSE permute_hidden(Val(received), unsorted_indices))
     /\ UNCHANGED <<impl, options, parameters, _flat_weights_names, _all_weights,
                    _flat_weights, env>>

RNN_forward_tensor ==
  /\ Ready("RNN")
  /\ \E input \in InputShapes, hx \in Optional(HiddenTensors) :
    RNN_forward("forward_tensor", input, Undef, Undef, Undef,
                IF options.batch_first THEN input[1] ELSE input[2], hx)

RNN_forward_packed ==
  /\ Ready("RNN")
  /\ \E packed_input \in PackedSequences, hx \in Optional(HiddenTensors) :
    RNN_forward("forward_packed", packed_input.data, packed_input.batch_sizes,
                packed_input.sorted_indices, packed_input.unsorted_indices,
                Val(packed_input.batch_sizes)[1], hx)

\* GRUImpl::forward, both overloads.
GRU_forward(method, input, batch_sizes, sorted_indices, unsorted_indices, max_batch_size, hx) ==
  LET fh == GRUImpl_forward_helper(input, batch_sizes, sorted_indices, max_batch_size, hx,
                                   _flat_weights, options)
  IN /\ Ready("GRU")
     /\ call' = CallRecord(method, input, batch_sizes, sorted_indices, unsorted_indices, hx, fh,
                           IF fh.raised THEN Ok(Indeterminate)
                           ELSE permute_hidden(Val(fh.hidden), unsorted_indices))
     /\ UNCHANGED <<impl, options, parameters, _flat_weights_names, _all_weights,
                    _flat_weights, env>>

GRU_forward_tensor ==
  /\ Ready("GRU")
  /\ \E input \in InputShapes, hx \in Optional(HiddenTensors) :
    GRU_forward("forward_tensor", input, Undef, Undef, Undef,
                IF options.batch_first THEN input[1] ELSE input[2], hx)

GRU_forward_packed ==
  /\ Ready("GRU")
  /\ \E packed_input \in PackedSequences, hx \in Optional(HiddenTensors) :
    GRU_forward("forward_packed", packed_input.data, packed_input.batch_sizes,
                packed_input.sorted_indices, packed_input.unsorted_indices,
                Val(packed_input.batch_sizes)[1], hx)

\* LSTMImpl::forward, both overloads.
LSTM_forward(method, input, batch_sizes, sorted_indices, unsorted_indices, max_batch_size, hx_opt) ==
  LET fh == LSTMImpl_forward_helper(input, batch_sizes, sorted_indices, max_batch_size, hx_opt,
                                    _flat_weights, options)
  IN /\ Ready("LSTM")
     /\ call' = CallRecord(method, input, batch_sizes, sorted_indices, unsorted_indices, hx_opt, fh,
                           IF fh.raised THEN Ok(Indeterminate)
                           ELSE LSTMImpl_permute_hidden(Val(fh.hidden), unsorted_indices))
     /\ UNCHANGED <<impl, options, parameters, _flat_weights_names, _all_weights,
                    _flat_weights, env>>

LSTM_forward_tensor ==
  /\ Ready("LSTM")
  /\ \E input \in InputShapes, hx_opt \in Optional(HiddenPairs) :
    LSTM_forward("forward_tensor", input, Undef, Undef, Undef,
                 IF options.batch_first THEN input[1] ELSE input[2], hx_opt)

LSTM_forward_packed ==
  /\ Ready("LSTM")
  /\ \E packed_input \in PackedSequences, hx_opt \in Optional(HiddenPairs) :
    LSTM_forward("forward_packed", packed_input.data, packed_input.batch_sizes,
                 packed_input.sorted_indices, packed_input.unsorted_indices,
                 Val(packed_input.batch_sizes)[1], hx_opt)

\* The caller takes the result of the call; the module is ready for the next one.
Return ==
  /\ call.method # "none"
  /\ call' = NoCall
  /\ UNCHANGED <<impl, options, parameters, _flat_weights_names, _all_weights,
                 _flat_weights, env>>

FwdOptionValues ==
  {RNNOptionsBase(m, i, h, l, b, bf, 0, bd) :
     m \in Modes, i \in Sizes, h \in Sizes, l \in Layers, b \in BOOLEAN,
     bf \in BOOLEAN, bd \in BOOLEAN}

InitFwd ==
  \E o \in FwdOptionValues :
    AfterConstruction(o, [cudnn_enabled |-> FALSE, op |-> "none", error |-> "", warned |-> FALSE,
                          flatten |-> "none", edits |-> 0])

NextFwd ==
  \/ RNN_forward_tensor \/ RNN_forward_packed
  \/ GRU_forward_tensor \/ GRU_forward_packed
  \/ LSTM_forward_tensor \/ LSTM_forward_packed
  \/ Return

SpecFwd == InitFwd /\ [][NextFwd]_vars

(***************************************************************************)
(* Claims about the forward methods, checked under SpecFwd.                *)
(***************************************************************************)
InCall == call.method # "none"
Packed == call.batch_sizes.defined
IsLSTM == impl.kind = "LSTM"
InputErrors == {"input must have dimensions", "input.size(-1) must be equal to input_size"}
HiddenErrors == {"Expected hidden size", "Expected hidden[0] size", "Expected hidden[1] size"}
Ran(step) == \E i \in 1..Len(call.trace) : call.trace[i] = step

\* What check_input accepts, stated on the call.
InputOk ==
  /\ Len(call.input) = (IF Packed THEN 2 ELSE 3)
  /\ call.input[Len(call.input)] = options.input_size

\* C1: in every forward call of RNN, LSTM or GRU check_input raises unless the input
\* has 3 dimensions (plain tensor) or 2 dimensions (data of a packed sequence) and its
\* last dimension equals options.input_size; when both hold it raises nothing.
C1_InputValidation ==
  (InCall /\ Ran("check_input")) =>
    /\ (call.error \in InputErrors) <=> ~InputOk
    /\ InputOk => Ran("check_hidden_size")
    /\ call.error \in InputErrors => call.raised /\ ~Ran("check_hidden_size")

\* A packed call whose two-dimensional data passed check_input, and went on.
C1_Witness ==
  /\ InCall /\ Packed /\ call.input = <<2, 2>> /\ options.input_size = 2
  /\ Ran("check_hidden_size") /\ call.error \notin InputErrors

\* A plain call whose three-dimensional input has the wrong feature size.
C1_WitnessRaised ==
  /\ InCall /\ ~Packed /\ call.input = <<2, 2, 1>> /\ options.input_size = 2
  /\ call.error = "input.size(-1) must be equal to input_size"

\* The expected hidden shape, stated on the call.
MiniBatch ==
  IF Packed THEN Val(call.batch_sizes)[1]
  ELSE IF options.batch_first THEN call.input[1] ELSE call.input[2]
ExpectedHidden == <<L * D, MiniBatch, H>>
\* The shapes of the hidden state that reached check_forward_args (one, or two for LSTM).
UsedShapes ==
  IF IsLSTM THEN <<Val(call.used)[1].shape, Val(call.used)[2].shape>>
  ELSE <<Val(call.used).shape>>
HiddenDiffers == \E i \in 1..Len(UsedShapes) : UsedShapes[i] # ExpectedHidden
\* check_forward_args ran, and raised.
ArgsRaised == Ran("check_input") /\ call.raised /\ ~Ran("kernel")

\* C2 as stated: check_forward_args raises if and only if the hidden state's shape
\* differs from (num_layers * num_directions, mini_batch, hidden_size).
C2_HiddenValidation_AsStated ==
  (InCall /\ Ran("check_input")) => (ArgsRaised <=> HiddenDiffers)

\* C2 amended: check_forward_args raises if and only if check_input raises or the
\* hidden state's shape differs from (num_layers * num_directions, mini_batch,
\* hidden_size), mini_batch being batch_sizes[0] for packed input and otherwise
\* input.size(0) if batch_first else input.size(1); for LSTM hidden[0] and hidden[1]
\* are both checked against that triple and a mismatch in either one raises.
C2_HiddenValidation ==
  (InCall /\ Ran("check_input")) =>
    /\ ArgsRaised <=> (call.error \in InputErrors \/ HiddenDiffers)
    /\ (call.error \in HiddenErrors) <=> (call.error \notin InputErrors /\ HiddenDiffers)
    /\ (IsLSTM /\ call.error \notin InputErrors) =>
         /\ (call.error = "Expected hidden[0] size") <=> (UsedShapes[1] # ExpectedHidden)
         /\ (call.error = "Expected hidden[1] size") <=>
              (UsedShapes[1] = ExpectedHidden /\ UsedShapes[2] # ExpectedHidden)
    /\ (~IsLSTM /\ call.error \in HiddenErrors) => call.error = "Expected hidden size"

\* An LSTM call whose hidden[0] has the expected shape and whose hidden[1] has not.
C2_Witness ==
  /\ InCall /\ IsLSTM /\ call.hx.defined /\ call.used.defined
  /\ UsedShapes[1] = ExpectedHidden /\ UsedShapes[2] # ExpectedHidden
  /\ call.error = "Expected hidden[1] size"

\* A bidirectional batch_first call with a caller's hidden state that passed.
C2_WitnessPassed ==
  /\ InCall /\ ~Packed /\ call.hx.defined /\ ~call.raised
  /\ options.bidirectional /\ options.batch_first
  /\ call.input[1] # call.input[2]

KernelFor(mode) ==
  IF mode = "RNN_TANH" THEN "rnn_tanh" ELSE IF mode = "RNN_RELU" THEN "rnn_relu"
  ELSE IF mode = "LSTM" THEN "lstm" ELSE "gru"

Selected(t, ix) ==
  [shape |-> [t.shape EXCEPT ![2] = Len(ix)], rows |-> [k \in 1..Len(ix) |-> t.rows[ix[k] + 1]]]
SelectedIf(t, ix) == IF ix.defined THEN Selected(t, Val(ix)) ELSE t
IsInverse(p, q) == Len(p) = Len(q) /\ \A i \in 1..Len(q) : p[q[i] + 1] = i - 1
\* The members of a hidden state: one tensor, or two for LSTM.
Members(hs) == IF IsLSTM THEN hs ELSE <<hs>>
NMembers == IF IsLSTM THEN 2 ELSE 1

\* The permutation of the caller's hidden state in one successful call.
HiddenPermuted ==
  \A i \in 1..NMembers :
    LET given == Members(Val(call.hx))[i]
        used == Members(Val(call.used))[i]
        kernel == Members(kernel_hidden(Val(call.used)))[i]
        returned == Members(Val(call.hidden))[i]
    IN /\ used = SelectedIf(given, call.sorted_indices)
       /\ ~call.sorted_indices.defined => used = given
       /\ Packed =>
            /\ returned = SelectedIf(kernel, call.unsorted_indices)
            /\ (call.sorted_indices.defined
                  /\ IsInverse(Val(call.sorted_indices), Val(call.unsorted_indices)))
                 => \A b \in 1..Len(returned.rows) : returned.rows[b] = given.rows[b]

\* C6: in a packed-sequence forward with a caller's hidden state, the kernel gets that
\* state index-selected along dimension 1 by sorted_indices and the caller gets the
\* kernel's hidden state index-selected by unsorted_indices, so that with
\* unsorted_indices the inverse of sorted_indices batch entry i returned is batch
\* entry i supplied; with undefined indices permute_hidden passes the hidden state
\* through unchanged; LSTM does the same to both members of (h, c).
C6_HiddenPermutation ==
  (InCall /\ ~call.raised /\ call.hx.defined) => HiddenPermuted

\* The same for the two classes with their own forward_helper.
C6_HiddenPermutation_LSTM_GRU ==
  (InCall /\ ~call.raised /\ call.hx.defined /\ impl.kind # "RNN") => HiddenPermuted

\* A GRU call on a packed sequence sorted by a proper permutation.
C6_Witness ==
  /\ InCall /\ ~call.raised /\ call.hx.defined /\ impl.kind = "GRU"
  /\ call.sorted_indices = Def(<<1, 0>>) /\ call.unsorted_indices = Def(<<1, 0>>)
  /\ Val(call.used).rows = <<2, 1>> /\ Val(call.hidden).rows = <<1, 2>>

Steps == <<"hidden", "check_input", "check_hidden_size", "kernel">>
CallInOrder ==
  InCall =>
    /\ Len(call.trace) \in 1..Len(Steps)
    /\ call.trace = SubSeq(Steps, 1, Len(call.trace))
    /\ ArgsRaised => (call.kernels = <<>> /\ ~Ran("kernel"))
    /\ Len(call.kernels) > 0 => call.trace = Steps
    /\ (~call.raised) => (call.trace = Steps /\ Len(call.kernels) = 1)

\* C9: in every forward call the hidden state is defaulted or permuted, then
\* check_input runs, then the hidden-size check, then the kernel; when a check raises
\* the kernel is not invoked in that call and _flat_weights, _flat_weights_names, the
\* registered parameters and the options are as before the call.
C9_ValidationPrecedesDispatch ==
  [][ /\ CallInOrder'
      /\ (call'.method # "none" /\ call'.raised) =>
           UNCHANGED <<_flat_weights, _flat_weights_names, parameters, options>> ]_vars

\* A GRU call that check_hidden_size stopped: three steps, no kernel.
C9_Witness ==
  /\ InCall /\ impl.kind = "GRU" /\ call.error = "Expected hidden size"
  /\ call.trace = <<"hidden", "check_input", "check_hidden_size">> /\ call.kernels = <<>>

\* zeros of the expected shape.
DefaultHidden == [shape |-> ExpectedHidden, rows |-> [i \in 1..MiniBatch |-> 0]]

\* C10: without a caller's hidden state the one used is zeros of shape
\* (num_layers * num_directions, max_batch_size, hidden_size), max_batch_size being
\* input.size(0) if batch_first else input.size(1), or batch_sizes[0] when packed (for
\* LSTM the pair of two such); for every input that passes check_input it passes the
\* hidden-size check.
C10_DefaultHiddenValidates ==
  (InCall /\ ~call.hx.defined) =>
    /\ call.used.defined
    /\ Val(call.used) = (IF IsLSTM THEN <<DefaultHidden, DefaultHidden>> ELSE DefaultHidden)
    /\ call.error \notin HiddenErrors
    /\ InputOk => (~call.raised /\ Ran("check_hidden_size"))

\* A batch_first LSTM call on a plain tensor, without hidden state, that went through.
C10_Witness ==
  /\ InCall /\ IsLSTM /\ ~call.hx.defined /\ ~call.raised /\ ~Packed
  /\ options.batch_first /\ call.input = <<2, 1, 2>>
  /\ Val(call.used)[2].shape = <<L * D, 2, H>>

====
